---------------------------- MODULE Spec2Model ----------------------------
(***************************************************************************)
(* A model of the uplogic action nodes (ULSetCameraOrthoScale,             *)
(* ULSetBoneConstraintInfluence, ULPrintValue) and of the ray casting      *)
(* helpers of uplogic.utils.raycasting (ray_data, raycast, raycast_face,   *)
(* raycast_projectile, raycast_camera).                                    *)
(*                                                                         *)
(* Socket values of the nodes are strings: "WAITING" is STATUS_WAITING,    *)
(* "None" is Python's None, every other string names an engine object, a   *)
(* pose bone, a constraint or a float.                                     *)
(***************************************************************************)
EXTENDS Integers, Sequences, FiniteSets, TLC

VARIABLES
    \* ---- engine state the nodes write ----
    ortho_scale,    \* camera -> its ortho_scale
    influence,      \* <<armature, bone, constraint>> -> the constraint's influence
    console,        \* the lines log() has emitted, oldest first
    \* ---- node state ----
    cam_done, cam_ready,        \* ULSetCameraOrthoScale.done / ready status
    bone_done, bone_ready,      \* ULSetBoneConstraintInfluence.done / ready status
    print_done, print_ready,    \* ULPrintValue.done / ready status
    last,           \* the evaluate() call just made: the inputs it read, how it ended
    \* ---- ray casting ----
    scene,          \* the engine's objects: position, properties, materials, group
    args,           \* the arguments raycast and raycast_face are called with
    ray_out,        \* what raycast returned, and the engine ray casts it issued
    face_out,       \* what raycast_face returned, and the engine ray casts it issued
    data_out,       \* what ray_data returned for the arguments of args
    cam_args,       \* the arguments raycast_camera is called with
    cam_out,        \* what raycast_camera returned, and the engine ray cast it issued
    proj_args,      \* the arguments raycast_projectile is called with
    proj            \* raycast_projectile's locals: where it is, idx, total_dist, points, ...

nodeVars == <<ortho_scale, influence, console, cam_done, cam_ready,
              bone_done, bone_ready, print_done, print_ready, last>>

rayVars == <<scene, args, ray_out, face_out, data_out>>

camVars == <<cam_args, cam_out>>

projVars == <<proj_args, proj>>

vars == <<nodeVars, rayVars, camVars, projVars>>

---------------------------------------------------------------------------
(* The engine objects and input values the sockets can carry.              *)

STATUS_WAITING == "WAITING"
NoneValue == "None"

\* Live cameras, and a reference to a camera the engine has freed.
Cameras == {"cam1", "cam2"}
FreedCamera == "camFreed"
\* Live armatures, and a reference to an armature the engine has freed.
Armatures == {"arm1", "arm2"}
FreedArmature == "armFreed"

\* The constraints of every pose bone of every armature.
\* (arm1 has no bone b2, arm2 no bone b1, and arm2's b2 no constraint c2.)
Constraints ==
    {<<"arm1", "b1", "c1">>, <<"arm1", "b1", "c2">>, <<"arm2", "b2", "c1">>}

\* Names a string socket can carry for bone and constraint.
BoneNames == {"b1", "b2"}
ConstraintNames == {"c1", "c2"}

\* Float values an influence or scale socket can carry.
FloatValues == {"0.25", "1.0"}

\* The bound on the number of console lines kept in the model.
MaxLog == 1

ConditionInputs == {STATUS_WAITING, "False", "True"}
CameraInputs == {STATUS_WAITING, NoneValue, FreedCamera} \cup Cameras
ArmatureInputs == {STATUS_WAITING, FreedArmature} \cup Armatures
BoneInputs == {STATUS_WAITING} \cup BoneNames
ConstraintInputs == {STATUS_WAITING} \cup ConstraintNames
FloatInputs == {STATUS_WAITING} \cup FloatValues
PrintInputs == {STATUS_WAITING, "hello"}

\* uplogic.utils.not_met: the condition is waiting, None or False.
not_met(condition) == condition \in {STATUS_WAITING, NoneValue, "False"}

\* uplogic.utils.is_waiting: some argument is STATUS_WAITING.
is_waiting(inputs) == STATUS_WAITING \in inputs

\* uplogic.utils.is_invalid: the reference is None, waiting, or an engine
\* object that has been freed (its .invalid is True).
is_invalid(ref) == ref \in {NoneValue, STATUS_WAITING, FreedCamera, FreedArmature}

\* The unread inputs of a call that returned before reading them.
Unread == "-"

Call(node, condition, target, bone, constraint, value, outcome) ==
    [node |-> node, condition |-> condition, target |-> target, bone |-> bone,
     constraint |-> constraint, value |-> value, outcome |-> outcome]

---------------------------------------------------------------------------
(* ULSetCameraOrthoScale.evaluate                                          *)

\* A faulty variant of CameraEntryDone: the reset of line 21 is left out.
CameraEntryDoneKept == cam_done

\* self.done = False on entry (line 21): the value done has on every early return.
CameraEntryDone == "False"

\* A faulty variant of CameraWaitingArgs: the scale is not checked for waiting.
CameraWaitingArgsNoScale(camera, scale) == {camera}

\* The data inputs is_waiting is given (line 27).
CameraWaitingArgs(camera, scale) == {camera, scale}

ULSetCameraOrthoScale_evaluate ==
    \E condition \in ConditionInputs :
        IF not_met(condition)
        THEN /\ cam_done' = CameraEntryDone
             /\ last' = Call("camera", condition, Unread, Unread, Unread, Unread, "not_met")
             /\ UNCHANGED <<cam_ready, ortho_scale>>
        ELSE \E camera \in CameraInputs, scale \in FloatInputs :
        IF is_waiting(CameraWaitingArgs(camera, scale))
        THEN /\ cam_done' = CameraEntryDone
             /\ last' = Call("camera", condition, camera, Unread, Unread, scale, "waiting")
             /\ UNCHANGED <<cam_ready, ortho_scale>>
        ELSE IF is_invalid(camera)
        THEN /\ cam_done' = CameraEntryDone
             /\ cam_ready' = TRUE
             /\ last' = Call("camera", condition, camera, Unread, Unread, scale, "invalid")
             /\ UNCHANGED ortho_scale
        ELSE /\ ortho_scale' = [ortho_scale EXCEPT ![camera] = scale]
             /\ cam_done' = "True"
             /\ cam_ready' = TRUE
             /\ last' = Call("camera", condition, camera, Unread, Unread, scale, "done")

ULSetCameraOrthoScale_step ==
    /\ ULSetCameraOrthoScale_evaluate
    /\ UNCHANGED <<influence, console, bone_done, bone_ready, print_done, print_ready>>

---------------------------------------------------------------------------
(* ULSetBoneConstraintInfluence.evaluate                                   *)

\* armature.blenderObject.pose.bones[bone].constraints[constraint]: the
\* subscripts raise KeyError for a name the armature does not have.
HasConstraint(armature, bone, constraint) ==
    <<armature, bone, constraint>> \in Constraints

\* A faulty variant of SetInfluence: every constraint of the pose bone is written.
SetInfluenceWholeBone(armature, bone, constraint, value) ==
    [k \in DOMAIN influence |->
        IF k[1] = armature /\ k[2] = bone THEN value ELSE influence[k]]

\* The assignment of lines 41-48: one constraint's influence is replaced.
SetInfluence(armature, bone, constraint, value) ==
    [influence EXCEPT ![<<armature, bone, constraint>>] = value]

\* self.done = False on entry (line 23): the value done has on every early return.
BoneEntryDone == "False"

\* The data inputs is_waiting is given (lines 31-36).
BoneWaitingArgs(armature, bone, constraint, value) ==
    {armature, bone, constraint, value}

ULSetBoneConstraintInfluence_evaluate ==
    \E condition \in ConditionInputs :
        IF not_met(condition)
        THEN /\ bone_done' = BoneEntryDone
             /\ last' = Call("bone", condition, Unread, Unread, Unread, Unread, "not_met")
             /\ UNCHANGED <<bone_ready, influence>>
        ELSE \E armature \in ArmatureInputs, bone \in BoneInputs,
                constraint \in ConstraintInputs, value \in FloatInputs :
        IF is_waiting(BoneWaitingArgs(armature, bone, constraint, value))
        THEN /\ bone_done' = BoneEntryDone
             /\ last' = Call("bone", condition, armature, bone, constraint, value, "waiting")
             /\ UNCHANGED <<bone_ready, influence>>
        ELSE IF is_invalid(armature)
        THEN /\ bone_done' = BoneEntryDone
             /\ bone_ready' = TRUE
             /\ last' = Call("bone", condition, armature, bone, constraint, value, "invalid")
             /\ UNCHANGED influence
        ELSE IF ~HasConstraint(armature, bone, constraint)
        THEN \* the subscript raises: evaluate is left before the assignment
             /\ bone_done' = BoneEntryDone
             /\ bone_ready' = TRUE
             /\ last' = Call("bone", condition, armature, bone, constraint, value, "raised")
             /\ UNCHANGED influence
        ELSE /\ influence' = SetInfluence(armature, bone, constraint, value)
             /\ bone_done' = "True"
             /\ bone_ready' = TRUE
             /\ last' = Call("bone", condition, armature, bone, constraint, value, "done")

ULSetBoneConstraintInfluence_step ==
    /\ ULSetBoneConstraintInfluence_evaluate
    /\ UNCHANGED <<ortho_scale, console, cam_done, cam_ready, print_done, print_ready>>

---------------------------------------------------------------------------
(* ULPrintValue.evaluate                                                   *)

\* uplogic.logging.log(value, msg_type): one more line on the console; the
\* model keeps the newest MaxLog lines.
log(value) ==
    LET all == Append(console, value)
    IN  IF Len(all) <= MaxLog THEN all
        ELSE SubSeq(all, Len(all) - MaxLog + 1, Len(all))

ULPrintValue_evaluate ==
    \E condition \in ConditionInputs :
        IF not_met(condition)
        THEN /\ print_done' = "False"
             /\ last' = Call("print", condition, Unread, Unread, Unread, Unread, "not_met")
             /\ UNCHANGED <<print_ready, console>>
        ELSE \E value \in PrintInputs :
             /\ print_ready' = TRUE
             /\ console' = log(value)
             /\ print_done' = "True"
             /\ last' = Call("print", condition, Unread, Unread, Unread, value, "done")

ULPrintValue_step ==
    /\ ULPrintValue_evaluate
    /\ UNCHANGED <<ortho_scale, influence, cam_done, cam_ready, bone_done, bone_ready>>

---------------------------------------------------------------------------
(* The engine's scene, along the line of the ray: positions are integers,  *)
(* a vector is its coordinate on the line.                                 *)

\* The farthest position of an object.
MaxPos == 3
\* The farthest origin point.
MaxOrigin == 1
\* The longest distance argument.
MaxDist == 4

Caster == "K"
Objects == {"A", "B", Caster}
PropNames == {"p"}
MaterialNames == {"m"}
\* Collision layers; the default mask 65535 has all of them.
Layers == {1, 2}
DefaultMask == Layers

\* None, where a point is expected.
NoPoint == -1
\* None, where a normal is expected.
NoNormal == 0

Abs(x) == IF x < 0 THEN -x ELSE x
\* Vector.normalize() on the line (the zero vector is left as it is).
Normalized(x) == IF x > 0 THEN 1 ELSE IF x < 0 THEN -1 ELSE 0

Scenes ==
    {[pos |-> [o \in Objects |->
                  IF o = "A" THEN a ELSE IF o = "B" THEN b ELSE k],
      props |-> [o \in Objects |->
                  IF o = "A" THEN pa ELSE IF o = "B" THEN pb ELSE {}],
      mats |-> [o \in Objects |->
                  IF o = "A" THEN ma ELSE IF o = "B" THEN mb ELSE {}],
      group |-> [o \in Objects |-> IF o = "B" THEN gb ELSE 1]] :
        <<a, b, k, pa, pb, ma, mb, gb>> \in
            {t \in (1..MaxPos) \X (1..MaxPos) \X (0..MaxPos)
                    \X (SUBSET PropNames) \X (SUBSET PropNames)
                    \X (SUBSET MaterialNames) \X (SUBSET MaterialNames)
                    \X Layers :
                t[1] < t[2] /\ t[3] # t[1] /\ t[3] # t[2]}}

NoHit == [obj |-> NoneValue, point |-> NoPoint, normal |-> NoNormal,
          face |-> NoneValue, uv |-> NoPoint]

\* KX_GameObject.rayCast(objto, objfrom, dist, prop, xray=, mask=), called
\* on object self: the first object other than self on the ray from
\* objfrom towards objto, within dist (within objto when dist is 0), whose
\* collision group is in mask. With a prop, the first hit must have it,
\* unless xray is set, and then the objects without it are passed through.
EngineRayCast(self, objto, objfrom, dist, prop, xray, mask) ==
    LET dir == Normalized(objto - objfrom)
        len == IF dist # 0 THEN dist ELSE Abs(objto - objfrom)
        T(o) == (scene.pos[o] - objfrom) * dir
        onRay == {o \in Objects \ {self} :
                    /\ T(o) > 0 /\ T(o) <= len
                    /\ scene.group[o] \in mask}
        seen == IF xray /\ prop # ""
                THEN {o \in onRay : prop \in scene.props[o]} ELSE onRay
        first == CHOOSE o \in seen : \A o2 \in seen : T(o) <= T(o2)
    IN  IF dir = 0 \/ seen = {} THEN NoHit
        ELSE IF prop # "" /\ prop \notin scene.props[first] THEN NoHit
        ELSE [obj |-> first, point |-> scene.pos[first], normal |-> -dir,
              face |-> first, uv |-> scene.pos[first]]

\* One engine ray cast, as issued.
Cast(self, objto, objfrom, dist, prop, xray, mask) ==
    [self |-> self, objto |-> objto, objfrom |-> objfrom, dist |-> dist,
     prop |-> prop, xray |-> xray, mask |-> mask]

---------------------------------------------------------------------------
(* uplogic.utils.raycasting                                                *)

\* A faulty variant of ray_data: the end point is left at the target
\* (line 24 is left out).
ray_dataDestKept(origin, dest, local, dist) ==
    LET dest1 == IF local THEN origin + dest ELSE dest
        d == Normalized(dest1 - origin)
        dist1 == IF dist # 0 THEN dist ELSE Abs(origin - dest1)
    IN  [d |-> d, dist |-> dist1, dest |-> dest1]

\* ray_data (lines 8-25): the direction, the distance and the end point.
ray_data(origin, dest, local, dist) ==
    LET dest1 == IF local THEN origin + dest ELSE dest
        d == Normalized(dest1 - origin)
        dist1 == IF dist # 0 THEN dist ELSE Abs(origin - dest1)
    IN  [d |-> d, dist |-> dist1, dest |-> origin + d * dist1]

\* bo.material_slots has a slot with a material of this name.
HasMaterial(obj, material) == material \in scene.mats[obj]

\* The condition of raycast's while loop, before "and leftover_dist > 0"
\* (lines 76-85; exclude_prop is prop when exclude is set).
Rejected(obj, a) ==
    IF a.exclude
    THEN HasMaterial(obj, a.material) \/ a.prop \in scene.props[obj]
    ELSE ~HasMaterial(obj, a.material)

\* The prop the engine is given: '' when exclude is set (line 60).
EngineProp(a) == IF a.exclude THEN "" ELSE a.prop

\* raycast's while loop (lines 75-105), from the hit st with leftover_dist
\* left; rd is ray_data's result. Returns the hit and the casts issued.
RECURSIVE raycast_loop(_, _, _, _, _)
raycast_loop(st, leftover_dist, casts, rd, a) ==
    IF ~(Rejected(st.obj, a) /\ leftover_dist > 0)
    THEN [hit |-> st, casts |-> casts]
    ELSE IF ~a.xray
    THEN [hit |-> [st EXCEPT !.obj = NoneValue, !.point = NoPoint,
                             !.normal = NoNormal],
          casts |-> casts]
    ELSE LET old_point == st.point
             nxt == EngineRayCast(st.obj, rd.dest, st.point, leftover_dist,
                                  EngineProp(a), a.xray, DefaultMask)
             issued == Append(casts, Cast(st.obj, rd.dest, st.point, leftover_dist,
                                          EngineProp(a), a.xray, DefaultMask))
         IN  IF nxt.obj = NoneValue
             THEN [hit |-> nxt, casts |-> issued]
             ELSE raycast_loop(nxt, leftover_dist - Abs(a.origin - old_point),
                               issued, rd, a)

raycast(a) ==
    LET rd == ray_data(a.origin, a.dest, a.local, a.distance)
        first == EngineRayCast(a.caster, rd.dest, a.origin, rd.dist,
                               EngineProp(a), a.xray, a.mask)
        casts == <<Cast(a.caster, rd.dest, a.origin, rd.dist,
                        EngineProp(a), a.xray, a.mask)>>
        enter == \/ a.material # "" /\ first.point # NoPoint
                 \/ /\ first.obj # NoneValue /\ a.exclude
                    /\ a.prop \in scene.props[first.obj]
        r == IF enter
             THEN raycast_loop(first, rd.dist - Abs(a.origin - first.point),
                               casts, rd, a)
             ELSE [hit |-> first, casts |-> casts]
    IN  [called |-> TRUE, obj |-> r.hit.obj, point |-> r.hit.point,
         normal |-> r.hit.normal, direction |-> rd.d,
         face |-> NoneValue, uv |-> NoPoint, casts |-> r.casts]

\* raycast_face's while loop (lines 174-205): as raycast's, but a rejected
\* hit with xray off resets obj, point and normal only.
RECURSIVE raycast_face_loop(_, _, _, _, _)
raycast_face_loop(st, leftover_dist, casts, rd, a) ==
    IF ~(Rejected(st.obj, a) /\ leftover_dist > 0)
    THEN [hit |-> st, casts |-> casts]
    ELSE IF ~a.xray
    THEN [hit |-> [st EXCEPT !.obj = NoneValue, !.point = NoPoint,
                             !.normal = NoNormal],
          casts |-> casts]
    ELSE LET old_point == st.point
             nxt == EngineRayCast(st.obj, rd.dest, st.point, leftover_dist,
                                  EngineProp(a), a.xray, DefaultMask)
             issued == Append(casts, Cast(st.obj, rd.dest, st.point, leftover_dist,
                                          EngineProp(a), a.xray, DefaultMask))
         IN  IF nxt.obj = NoneValue
             THEN [hit |-> nxt, casts |-> issued]
             ELSE raycast_face_loop(nxt, leftover_dist - Abs(a.origin - old_point),
                                    issued, rd, a)

raycast_face(a) ==
    LET rd == ray_data(a.origin, a.dest, a.local, a.distance)
        first == EngineRayCast(a.caster, rd.dest, a.origin, rd.dist,
                               EngineProp(a), a.xray, a.mask)
        casts == <<Cast(a.caster, rd.dest, a.origin, rd.dist,
                        EngineProp(a), a.xray, a.mask)>>
        enter == \/ a.material # "" /\ first.point # NoPoint
                 \/ first.obj # NoneValue /\ a.exclude
        r == IF enter
             THEN raycast_face_loop(first, rd.dist - Abs(a.origin - first.point),
                                    casts, rd, a)
             ELSE [hit |-> first, casts |-> casts]
    IN  [called |-> TRUE, obj |-> r.hit.obj, point |-> r.hit.point,
         normal |-> r.hit.normal, direction |-> rd.d,
         face |-> r.hit.face, uv |-> r.hit.uv, casts |-> r.casts]

NotCalled ==
    [called |-> FALSE, obj |-> NoneValue, point |-> NoPoint, normal |-> NoNormal,
     direction |-> 0, face |-> NoneValue, uv |-> NoPoint, casts |-> <<>>]

RayArgs ==
    [caster : {Caster}, origin : 0..MaxOrigin, dest : {MaxPos},
     distance : 0..MaxDist, prop : {""} \cup PropNames,
     material : {""} \cup MaterialNames, exclude : BOOLEAN, xray : BOOLEAN,
     local : BOOLEAN, mask : {{1}, DefaultMask}]

CallRaycast ==
    /\ ~ray_out.called
    /\ ray_out' = raycast(args)
    /\ UNCHANGED <<scene, args, face_out, data_out>>

CallRaycastFace ==
    /\ ~face_out.called
    /\ face_out' = raycast_face(args)
    /\ UNCHANGED <<scene, args, ray_out, data_out>>

\* ray_data has not been called.
NoData == [called |-> FALSE, d |-> 0, dist |-> 0, dest |-> 0]

RayInit ==
    /\ scene \in Scenes
    /\ args \in RayArgs
    /\ ray_out = NotCalled
    /\ face_out = NotCalled
    /\ data_out = NoData

\* The ray casting variables of a run that casts no ray.
RayUnused ==
    /\ scene = CHOOSE sc \in Scenes : TRUE
    /\ args = CHOOSE a \in RayArgs : TRUE
    /\ ray_out = NotCalled
    /\ face_out = NotCalled
    /\ data_out = NoData

\* The arguments ray_data is followed on: the origin anywhere on the line,
\* the target before, at or behind it, given as a point or relative to the
\* origin.
DataArgs ==
    [caster : {Caster}, origin : 0..MaxPos, dest : (-MaxPos)..MaxPos,
     distance : 0..MaxDist, prop : {""}, material : {""}, exclude : {FALSE},
     xray : BOOLEAN, local : BOOLEAN, mask : {{1}, DefaultMask}]

\* Scenes of objects without properties and materials, all in layer 1.
DataScenes ==
    {sc \in Scenes : \A o \in Objects :
        sc.props[o] = {} /\ sc.mats[o] = {} /\ sc.group[o] = 1}

\* direction, distance, dest = ray_data(origin, dest, local, distance)
\* (line 63), on its own.
CallRayData ==
    /\ ~data_out.called
    /\ data_out' = LET rd == ray_data(args.origin, args.dest, args.local,
                                      args.distance)
                   IN  [called |-> TRUE, d |-> rd.d, dist |-> rd.dist,
                        dest |-> rd.dest]
    /\ UNCHANGED <<scene, args, ray_out, face_out>>

DataInit ==
    /\ scene \in DataScenes
    /\ args \in DataArgs
    /\ ray_out = NotCalled
    /\ face_out = NotCalled
    /\ data_out = NoData

---------------------------------------------------------------------------
(* raycast_camera                                                          *)

\* The factor of line 318.
ScreenVectFactor == 10

\* camera.getScreenVect(x, y): the unit vector from the point of the screen
\* towards the camera, against the camera's line of sight.
ScreenVect == -1

\* aim is a screen coordinate pair (a Vector of length 2) or a world point.
CamArgs ==
    [distance : 0..MaxDist, prop : {""} \cup PropNames, xray : BOOLEAN,
     aim : [screen : {TRUE}, at : {0}] \cup [screen : {FALSE}, at : {MaxPos}],
     mask : {{1}, DefaultMask}]

raycast_camera(a) ==
    LET camera == Caster
        aim == IF a.aim.screen
               THEN scene.pos[camera] - ScreenVectFactor * ScreenVect
               ELSE a.aim.at
        \* objfrom None: the ray starts at the camera
        from == scene.pos[camera]
        hit == IF a.prop # ""
               THEN EngineRayCast(camera, aim, from, a.distance, a.prop, a.xray, a.mask)
               ELSE EngineRayCast(camera, aim, from, a.distance, "", FALSE, DefaultMask)
        cast == IF a.prop # ""
                THEN Cast(camera, aim, from, a.distance, a.prop, a.xray, a.mask)
                ELSE Cast(camera, aim, from, a.distance, "", FALSE, DefaultMask)
    IN  [called |-> TRUE, obj |-> hit.obj, point |-> hit.point,
         normal |-> hit.normal, direction |-> 0,
         face |-> NoneValue, uv |-> NoPoint, casts |-> <<cast>>]

CallRaycastCamera ==
    /\ ~cam_out.called
    /\ cam_out' = raycast_camera(cam_args)
    /\ UNCHANGED <<scene, cam_args>>

CamInit ==
    /\ scene \in Scenes
    /\ cam_args \in CamArgs
    /\ cam_out = NotCalled

CamUnused ==
    /\ cam_args = CHOOSE a \in CamArgs : TRUE
    /\ cam_out = NotCalled

---------------------------------------------------------------------------
(* raycast_projectile, along the vertical line                             *)

\* The greatest power argument.
MaxPower == 2
\* The greatest resolution argument.
MaxRes == 2
\* idx and the number of casts are counted up to MaxIdx, and the newest
\* MaxPoints points are kept: a call whose projectile moves returns before
\* either is reached.
MaxIdx == 6
MaxPoints == 7

\* scene.gravity.z
Gravities == {0, -2}

ProjArgs ==
    [caster : {Caster}, origin : 0..MaxOrigin, aim : {-1, 0, 1},
     power : 0..MaxPower, distance : 1..MaxDist, resolution : 1..MaxRes,
     prop : {""} \cup PropNames, xray : BOOLEAN, local : BOOLEAN,
     mask : {DefaultMask}, gravity : Gravities]

\* The scenes the projectile is cast in.
ProjScenes ==
    {sc \in Scenes : /\ \A o \in Objects : sc.mats[o] = {} /\ sc.group[o] = 1
                     /\ sc.props["B"] = {}}

\* calc_projectile(t, vel, pos), with half = gravity.z * (.5 * t * t)
calc_projectile(t, vel, pos, gravity) ==
    ((gravity * t * t) \div 2) + vel * t + pos

\* aim.normalize(); aim *= power (lines 262-263)
ProjVelocity(a) == Normalized(a.aim) * a.power

\* origin, after line 266
ProjOrigin(a) == IF a.local THEN a.origin + scene.pos[a.caster] ELSE a.origin

\* points, with one more point (the newest MaxPoints are kept).
AppendPoint(points, p) ==
    LET all == Append(points, p)
    IN  IF Len(all) <= MaxPoints THEN all
        ELSE SubSeq(all, Len(all) - MaxPoints + 1, Len(all))

ProjStart ==
    [pc |-> "while", idx |-> 0, total_dist |-> 0, points |-> <<>>,
     target |-> 0, obj |-> NoneValue, point |-> NoPoint, normal |-> NoNormal,
     ncasts |-> 0]

\* Line 273: the loop is left when total_dist has reached distance.
ProjWhile ==
    /\ proj.pc = "while"
    /\ proj' = [proj EXCEPT !.pc = IF proj.total_dist < proj_args.distance
                                   THEN "cast" ELSE "return"]
    /\ UNCHANGED <<scene, proj_args>>

\* Lines 274-283: the ray cast of one step, and the path length so far.
ProjCast ==
    /\ proj.pc = "cast"
    /\ LET a == proj_args
           target == calc_projectile(proj.idx, ProjVelocity(a), ProjOrigin(a), a.gravity)
           start == IF proj.points = <<>> THEN ProjOrigin(a)
                    ELSE proj.points[Len(proj.points)]
           hit == EngineRayCast(a.caster, start, target, 0, a.prop, a.xray, a.mask)
       IN  proj' = [proj EXCEPT !.pc = "append", !.target = target,
                                !.obj = hit.obj, !.point = hit.point,
                                !.normal = hit.normal,
                                !.total_dist = @ + Abs(target - start),
                                !.ncasts = IF @ < MaxIdx THEN @ + 1 ELSE @]
    /\ UNCHANGED <<scene, proj_args>>

\* Lines 284-290: the point of the step is appended; a hit ends the loop.
ProjAppend ==
    /\ proj.pc = "append"
    /\ proj' = IF proj.obj = NoneValue
               THEN [proj EXCEPT !.pc = "while",
                                 !.points = AppendPoint(@, proj.target),
                                 !.idx = IF @ + proj_args.resolution <= MaxIdx
                                         THEN @ + proj_args.resolution ELSE @]
               ELSE [proj EXCEPT !.pc = "return",
                                 !.points = AppendPoint(@, proj.point)]
    /\ UNCHANGED <<scene, proj_args>>

\* Line 295.
ProjReturn ==
    /\ proj.pc = "return"
    /\ proj' = [proj EXCEPT !.pc = "done"]
    /\ UNCHANGED <<scene, proj_args>>

ProjInit ==
    /\ scene \in ProjScenes
    /\ proj_args \in ProjArgs
    /\ proj = ProjStart

ProjUnused ==
    /\ proj_args = CHOOSE a \in ProjArgs : TRUE
    /\ proj = [ProjStart EXCEPT !.pc = "unused"]

---------------------------------------------------------------------------
(* The nodes after construction, over an engine in any state.              *)

NodeInit ==
    /\ ortho_scale \in [Cameras -> FloatValues]
    /\ influence \in [Constraints -> FloatValues]
    /\ console = <<>>
    /\ cam_done = NoneValue /\ cam_ready = FALSE
    /\ bone_done = NoneValue /\ bone_ready = FALSE
    /\ print_done = NoneValue /\ print_ready = FALSE
    /\ last = Call("init", Unread, Unread, Unread, Unread, Unread, "init")

\* The nodes of a run that evaluates none.
NodesUnused ==
    /\ ortho_scale = [c \in Cameras |-> "1.0"]
    /\ influence = [k \in Constraints |-> "1.0"]
    /\ console = <<>>
    /\ cam_done = NoneValue /\ cam_ready = FALSE
    /\ bone_done = NoneValue /\ bone_ready = FALSE
    /\ print_done = NoneValue /\ print_ready = FALSE
    /\ last = Call("init", Unread, Unread, Unread, Unread, Unread, "init")

Init == NodeInit /\ RayUnused /\ CamUnused /\ ProjUnused

\* The two nodes that write an engine property.
SetterNext ==
    \/ ULSetCameraOrthoScale_step /\ UNCHANGED <<rayVars, camVars, projVars>>
    \/ ULSetBoneConstraintInfluence_step /\ UNCHANGED <<rayVars, camVars, projVars>>

SpecSetters == Init /\ [][SetterNext]_vars

\* All three nodes of a logic tree.
NodeNext ==
    \/ ULSetCameraOrthoScale_step /\ UNCHANGED <<rayVars, camVars, projVars>>
    \/ ULSetBoneConstraintInfluence_step /\ UNCHANGED <<rayVars, camVars, projVars>>
    \/ ULPrintValue_step /\ UNCHANGED <<rayVars, camVars, projVars>>

SpecNodes == Init /\ [][NodeNext]_vars

RayNext ==
    \/ CallRaycast /\ UNCHANGED <<nodeVars, camVars, projVars>>
    \/ CallRaycastFace /\ UNCHANGED <<nodeVars, camVars, projVars>>

InitRay == NodesUnused /\ RayInit /\ CamUnused /\ ProjUnused

SpecRay == InitRay /\ [][RayNext]_vars

\* ray_data on its own, and raycast, which calls it.
DataNext ==
    \/ CallRayData /\ UNCHANGED <<nodeVars, camVars, projVars>>
    \/ CallRaycast /\ UNCHANGED <<nodeVars, camVars, projVars>>

InitData == NodesUnused /\ DataInit /\ CamUnused /\ ProjUnused

SpecData == InitData /\ [][DataNext]_vars

CamNext ==
    CallRaycastCamera /\ UNCHANGED <<nodeVars, args, ray_out, face_out, data_out, projVars>>

InitCam ==
    /\ NodesUnused /\ CamInit /\ ProjUnused
    /\ args = CHOOSE a \in RayArgs : TRUE
    /\ ray_out = NotCalled /\ face_out = NotCalled /\ data_out = NoData

SpecCam == InitCam /\ [][CamNext]_vars

ProjNext ==
    \/ ProjWhile /\ UNCHANGED <<nodeVars, args, ray_out, face_out, data_out, camVars>>
    \/ ProjCast /\ UNCHANGED <<nodeVars, args, ray_out, face_out, data_out, camVars>>
    \/ ProjAppend /\ UNCHANGED <<nodeVars, args, ray_out, face_out, data_out, camVars>>
    \/ ProjReturn /\ UNCHANGED <<nodeVars, args, ray_out, face_out, data_out, camVars>>

InitProj ==
    /\ NodesUnused /\ ProjInit /\ CamUnused
    /\ args = CHOOSE a \in RayArgs : TRUE
    /\ ray_out = NotCalled /\ face_out = NotCalled /\ data_out = NoData

SpecProj == InitProj /\ [][ProjNext]_vars

\* The loop is never kept from its next step.
FairSpecProj == SpecProj /\ WF_vars(ProjNext)

---------------------------------------------------------------------------
(* The statements about the nodes.                                        *)

\* The data inputs the call read (none when the condition was not met).
DataInputs(call) ==
    CASE call.node = "camera" -> {call.target, call.value}
      [] call.node = "bone" -> {call.target, call.bone, call.constraint, call.value}
      [] call.node = "print" -> {call.value}
      [] OTHER -> {}

\* done of the node the call was made on.
DoneOf(call) ==
    CASE call.node = "camera" -> cam_done
      [] call.node = "bone" -> bone_done
      [] call.node = "print" -> print_done
      [] OTHER -> NoneValue

\* The condition was met, no data input was waiting, the target is valid.
Passed(call) ==
    /\ ~not_met(call.condition)
    /\ ~is_waiting(DataInputs(call))
    /\ ~is_invalid(call.target)

\* The engine property the call's inputs name holds the value the call read.
TargetHolds(call) ==
    CASE call.node = "camera" ->
            call.target \in DOMAIN ortho_scale /\ ortho_scale[call.target] = call.value
      [] call.node = "bone" ->
            /\ <<call.target, call.bone, call.constraint>> \in DOMAIN influence
            /\ influence[<<call.target, call.bone, call.constraint>>] = call.value
      [] OTHER -> FALSE

IsSetter(call) == call.node \in {"camera", "bone"}

\* C1 as stated: after every evaluate() of the two setter nodes, done is True
\* exactly when the condition was met, no data input was waiting and the
\* target was not invalid; and when done is True the engine property holds
\* the value read.
C1_DoneIffPassed ==
    IsSetter(last) =>
        /\ (DoneOf(last) = "True") <=> Passed(last)
        /\ (DoneOf(last) = "True") => TargetHolds(last)

\* C1 as amended: done is True exactly when, besides, the pose bone and the
\* constraint named by the inputs exist in the armature (the subscripts of
\* the assignment did not raise); and when done is True the engine property
\* holds the value read.
C1_DoneIffPassedAndFound ==
    IsSetter(last) =>
        /\ (DoneOf(last) = "True") <=>
                /\ Passed(last)
                /\ last.node = "bone" =>
                        <<last.target, last.bone, last.constraint>> \in Constraints
        /\ (DoneOf(last) = "True") => TargetHolds(last)

\* A call of the bone node that wrote, after a call of the camera node
\* that returned early.
C1_Witness ==
    /\ last.node = "bone" /\ bone_done = "True" /\ Passed(last)
    /\ influence[<<last.target, last.bone, last.constraint>>] = last.value
    /\ cam_done = "False"

\* C2: a call of a setter node that returns early (condition not met, a data
\* input waiting, or the target invalid) writes no engine property.
C2_EarlyReturnWritesNothing ==
    [][(IsSetter(last') /\ ~Passed(last')) =>
            (ortho_scale' = ortho_scale /\ influence' = influence)]_vars

\* A camera call that returned because its scale input was waiting, over an
\* engine some earlier call has written.
C2_Witness ==
    /\ last.node = "camera" /\ last.outcome = "waiting"
    /\ last.value = STATUS_WAITING /\ last.target \in Cameras
    /\ cam_ready
    /\ \E c \in Cameras : ortho_scale[c] = "0.25"

\* C3 as stated: a node acts (writes, logs) and becomes ready or done only in
\* a call in which none of its data inputs is waiting.
C3_ActsOnlyWhenInputsReady ==
    (last.node \in {"camera", "bone", "print"}
        /\ last.outcome \in {"invalid", "raised", "done"}) =>
            ~is_waiting(DataInputs(last))

\* C4: a successful call changes one engine field only: the bone node the
\* influence of the one constraint named, the camera node the ortho_scale
\* of the one camera named.
C4_OneFieldWritten ==
    [][((last'.node = "camera" /\ cam_done' = "True")
            \/ (last'.node = "bone" /\ bone_done' = "True")) =>
            /\ \A c \in Cameras :
                    (last'.node = "camera" /\ c = last'.target)
                        \/ ortho_scale'[c] = ortho_scale[c]
            /\ \A k \in Constraints :
                    (last'.node = "bone"
                        /\ k = <<last'.target, last'.bone, last'.constraint>>)
                        \/ influence'[k] = influence[k]]_vars

\* A bone call wrote one constraint of a bone whose other constraint, and
\* the other armature, hold another value.
C4_Witness ==
    /\ last.node = "bone" /\ bone_done = "True"
    /\ last.target = "arm1" /\ last.constraint = "c1" /\ last.value = "0.25"
    /\ influence[<<"arm1", "b1", "c1">>] = "0.25"
    /\ influence[<<"arm1", "b1", "c2">>] = "1.0"
    /\ influence[<<"arm2", "b2", "c1">>] = "1.0"

---------------------------------------------------------------------------
(* The statements about the ray casts.                                     *)

\* C5 as stated: raycast with a material (and exclude off) returns None or
\* an object that has the material.
C5_MaterialOnly ==
    (ray_out.called /\ args.material # "" /\ ~args.exclude) =>
        (ray_out.obj = NoneValue \/ HasMaterial(ray_out.obj, args.material))

\* C6 as stated: raycast with exclude set returns None or an object that has
\* neither the property prop nor the material.
C6_ExcludeInverts ==
    (ray_out.called /\ args.exclude) =>
        \/ ray_out.obj = NoneValue
        \/ /\ args.prop \notin scene.props[ray_out.obj]
           /\ ~HasMaterial(ray_out.obj, args.material)

\* C7 as stated: raycast never returns the caster, and every engine ray cast
\* it issues is given the caller's mask.
C7_CasterIgnoredMaskKept ==
    ray_out.called =>
        /\ ray_out.obj # args.caster
        /\ \A i \in 1..Len(ray_out.casts) : ray_out.casts[i].mask = args.mask

\* C8 as stated: for the same arguments and scene raycast_face returns
\* raycast's obj, point, normal and direction, with the face and uv of that
\* hit: both None when obj is None.
C8_FaceAgreesWithRaycast ==
    (ray_out.called /\ face_out.called) =>
        /\ face_out.obj = ray_out.obj
        /\ face_out.point = ray_out.point
        /\ face_out.normal = ray_out.normal
        /\ face_out.direction = ray_out.direction
        /\ IF face_out.obj = NoneValue
           THEN face_out.face = NoneValue /\ face_out.uv = NoPoint
           ELSE face_out.face = face_out.obj /\ face_out.uv = face_out.point

\* C9 as stated: raycast_projectile's loop ends for every positive distance
\* and resolution; on return points is not empty and, when an object was
\* hit, ends with the hit point of the last engine ray cast.
C9_ProjectileLoopEnds ==
    /\ <>(proj.pc = "done")
    /\ [](proj.pc = "done" =>
            /\ proj.points # <<>>
            /\ proj.ncasts > 0
            /\ proj.obj # NoneValue =>
                    proj.points[Len(proj.points)] = proj.point)

\* C10 as stated: the engine ray cast raycast_camera issues is given the
\* caller's xray flag and mask, whatever prop is.
C10_CameraCastKeepsXrayAndMask ==
    cam_out.called =>
        \A i \in 1..Len(cam_out.casts) :
            /\ cam_out.casts[i].xray = cam_args.xray
            /\ cam_out.casts[i].mask = cam_args.mask

---------------------------------------------------------------------------
(* The statements about ray_data.                                          *)

\* The point the ray is aimed at: dest, or origin + dest when local is set.
Target == IF args.local THEN args.origin + args.dest ELSE args.dest

\* With distance 0 ray_data returns the length from origin to the target
\* and the target itself, and raycast's engine ray cast is given the
\* distance and end point ray_data returns.
DistanceZeroToTarget ==
    /\ (data_out.called /\ args.distance = 0) =>
            /\ data_out.dist = Abs(Target - args.origin)
            /\ data_out.dest = Target
    /\ (ray_out.called /\ args.distance = 0) =>
            /\ ray_out.casts[1].dist = Abs(Target - args.origin)
            /\ ray_out.casts[1].objto = Target
            /\ ray_out.casts[1].objfrom = args.origin
    /\ (ray_out.called /\ data_out.called) =>
            /\ ray_out.casts[1].dist = data_out.dist
            /\ ray_out.casts[1].objto = data_out.dest

\* The end point is on the target's side of origin, at distance from it.
EndAtDistance ==
    /\ Abs(data_out.dest - args.origin) = args.distance
    /\ (data_out.dest - args.origin) * (Target - args.origin) > 0

\* C11 as stated: with distance 0 ray_data returns the length to the target
\* and the target, and raycast passes these to the engine ray cast; with a
\* non-zero distance the end point lies on the line from origin through the
\* target, at exactly distance from origin.
C11_DistanceSemantics ==
    /\ DistanceZeroToTarget
    /\ (data_out.called /\ args.distance # 0) => EndAtDistance

\* C11 amended: as stated, for a target that is not the origin; for a
\* target at the origin the direction is zero and the end point is the
\* origin, whatever the distance.
C11_DistanceSemanticsOffOrigin ==
    /\ DistanceZeroToTarget
    /\ (data_out.called /\ args.distance # 0 /\ Target # args.origin) =>
            EndAtDistance
    /\ (data_out.called /\ Target = args.origin) =>
            /\ data_out.d = 0
            /\ data_out.dest = args.origin
            /\ data_out.dist = args.distance

\* ray_data and raycast were called with a local target 2 ahead of origin
\* 1 and distance 4: the end point is 5, and the engine is given it.
C11_Witness ==
    /\ data_out.called /\ ray_out.called
    /\ args.local /\ args.origin = 1 /\ args.dest = 2 /\ args.distance = 4
    /\ data_out.dest = 5 /\ data_out.dist = 4 /\ data_out.d = 1
    /\ ray_out.casts[1].objto = 5 /\ ray_out.casts[1].dist = 4

=============================================================================
